---- MODULE Spec2Model ----
(***************************************************************************)
(* Resilient remote-call core of nestjs-powertools: the CircuitBreaker     *)
(* state machine and the ResilientHttpService request pipeline (timeout,   *)
(* retry, circuit breaker, metrics) of hooks/resilient-http.hook.ts.       *)
(*                                                                         *)
(* Time is a discrete clock `now` (Date.now()).  A wrapped operation is a  *)
(* single-response observable, as HttpService returns: once subscribed it  *)
(* either emits one value and completes, or errors.                        *)
(*                                                                         *)
(* The RateLimitGuard of guards/rate-limit.guard.ts is modelled beside     *)
(* them: its per-client window records, the reject and delay strategies,   *)
(* and getStatus.  Delays are exact rationals n/d of clock units.          *)
(***************************************************************************)
EXTENDS Integers, Sequences, FiniteSets, TLC

\* ---------------------------------------------------------------- bounds
MaxTime      == 5    \* the clock runs 0..MaxTime
MaxThreshold == 2    \* failureThreshold is drawn from 1..MaxThreshold
MaxReset     == 2    \* resetTimeout is drawn from 1..MaxReset
NumCalls     == 2    \* execute calls in flight on the breaker at one time
MaxCalls     == 5    \* execute calls issued on the breaker in one run
MaxAttempts  == 2    \* retry.maxAttempts is drawn from 1..MaxAttempts
MaxDelay     == 2    \* retry.delay is drawn from 1..MaxDelay (clock ticks)
RetryMaxDelay == 4   \* retry.maxDelay (clock ticks)
MaxRequests  == 2    \* service requests made in one run
MaxRetryRuns == 1    \* retried requests made in one run of the retry study
NumSleeping  == 2    \* canActivate calls asleep at one time
MaxRateTime  == 4    \* the guard's clock runs 0..MaxRateTime
MaxWindow    == 2    \* windowMs is drawn from 1..MaxWindow
MaxLimit     == 2    \* max is drawn from 1..MaxLimit
MaxSleep     == 2    \* maxDelayMs of the guards that delay
MaxStudyCount == 11  \* a record's count runs 1..MaxStudyCount in the delay study
JitterSteps  == 4    \* Math.random() is sampled at multiples of 1/JitterSteps
MaxQuery     == 2    \* getMetrics' limit is drawn from 0..MaxQuery

ExponentialBase == 2   \* retry.exponentialBase
MetricsLimit    == 1000

Undefined == -1      \* an unset optional field

\* --------------------------------------------------------------- arithmetic
RECURSIVE Pow(_, _)
Pow(b, n) == IF n = 0 THEN 1 ELSE b * Pow(b, n - 1)

Min(a, b) == IF a <= b THEN a ELSE b

Max(a, b) == IF a >= b THEN a ELSE b

\* ------------------------------------------------- CircuitBreaker (class)
\* fallbackHandler is absent ("none"), returns a value, or throws.
FallbackHandlers == {"none", "returns", "throws"}

CircuitBreakerConfigs ==
  [failureThreshold : 1..MaxThreshold,
   resetTimeout     : 1..MaxReset,
   fallbackHandler  : FallbackHandlers]

\* field initialisers and constructor
CircuitBreaker(config) ==
  [config          |-> config,
   state           |-> "CLOSED",
   failureCount    |-> 0,
   successCount    |-> 0,
   lastFailureTime |-> Undefined,
   nextAttemptTime |-> Undefined]

\* shouldAttemptReset true only after nextAttemptTime has gone by
shouldAttemptReset_AfterDue(b, t) ==
  IF b.nextAttemptTime = Undefined THEN FALSE ELSE t > b.nextAttemptTime

shouldAttemptReset(b, t) ==
  IF b.nextAttemptTime = Undefined THEN FALSE ELSE t >= b.nextAttemptTime

\* handleOpenCircuit with the catch around the fallback handler swallowing
\* the handler's error in favour of the circuit-open error
handleOpenCircuit_SwallowsFallbackError(b) ==
  IF b.config.fallbackHandler = "returns"
    THEN [kind |-> "value", val |-> "fallbackResult"]
  ELSE [kind |-> "error", val |-> "Circuit breaker is OPEN"]

\* the observable handed back while OPEN: what its subscriber receives
handleOpenCircuit(b) ==
  IF b.config.fallbackHandler = "returns"
    THEN [kind |-> "value", val |-> "fallbackResult"]
  ELSE IF b.config.fallbackHandler = "throws"
    THEN [kind |-> "error", val |-> "fallbackError"]
  ELSE [kind |-> "error", val |-> "Circuit breaker is OPEN"]

\* onSuccess closing the breaker from OPEN as well
onSuccess_ClosesFromOpen(b) ==
  LET b1 == [b EXCEPT !.successCount = @ + 1]
  IN  IF b1.state \in {"HALF_OPEN", "OPEN"}
        THEN [b1 EXCEPT !.state = "CLOSED", !.failureCount = 0]
        ELSE b1

\* onSuccess restarting successCount when it closes the breaker
onSuccess_RestartsCount(b) ==
  LET b1 == [b EXCEPT !.successCount = @ + 1]
  IN  IF b1.state = "HALF_OPEN"
        THEN [b1 EXCEPT !.state = "CLOSED", !.failureCount = 0,
                        !.successCount = 0]
        ELSE b1

\* onSuccess clearing failureCount on every success
onSuccess_ClearsFailureCount(b) ==
  LET b1 == [b EXCEPT !.successCount = @ + 1, !.failureCount = 0]
  IN  IF b1.state = "HALF_OPEN" THEN [b1 EXCEPT !.state = "CLOSED"] ELSE b1

\* onSuccess closing the breaker without clearing failureCount
onSuccess_KeepsFailureCount(b) ==
  LET b1 == [b EXCEPT !.successCount = @ + 1]
  IN  IF b1.state = "HALF_OPEN" THEN [b1 EXCEPT !.state = "CLOSED"] ELSE b1

onSuccess(b) ==
  LET b1 == [b EXCEPT !.successCount = @ + 1]
  IN  IF b1.state = "HALF_OPEN"
        THEN [b1 EXCEPT !.state = "CLOSED", !.failureCount = 0]
        ELSE b1

\* onFailure opening only once failureCount exceeds the threshold
onFailure_StrictThreshold(b, t) ==
  LET b1 == [b EXCEPT !.failureCount = @ + 1, !.lastFailureTime = t]
  IN  IF b1.state = "HALF_OPEN"
        THEN [b1 EXCEPT !.state = "OPEN",
                        !.nextAttemptTime = t + b.config.resetTimeout]
      ELSE IF b1.failureCount > b.config.failureThreshold
        THEN [b1 EXCEPT !.state = "OPEN",
                        !.nextAttemptTime = t + b.config.resetTimeout]
      ELSE b1

\* onFailure reopening from HALF_OPEN without recomputing nextAttemptTime
onFailure_StaleNextAttempt(b, t) ==
  LET b1 == [b EXCEPT !.failureCount = @ + 1, !.lastFailureTime = t]
  IN  IF b1.state = "HALF_OPEN"
        THEN [b1 EXCEPT !.state = "OPEN"]
      ELSE IF b1.failureCount >= b.config.failureThreshold
        THEN [b1 EXCEPT !.state = "OPEN",
                        !.nextAttemptTime = t + b.config.resetTimeout]
      ELSE b1

onFailure(b, t) ==
  LET b1 == [b EXCEPT !.failureCount = @ + 1, !.lastFailureTime = t]
  IN  IF b1.state = "HALF_OPEN"
        THEN [b1 EXCEPT !.state = "OPEN",
                        !.nextAttemptTime = t + b.config.resetTimeout]
      ELSE IF b1.failureCount >= b.config.failureThreshold
        THEN [b1 EXCEPT !.state = "OPEN",
                        !.nextAttemptTime = t + b.config.resetTimeout]
      ELSE b1

\* the synchronous part of execute: the breaker after the OPEN test, and
\* whether operation() is invoked
execute(b, t) ==
  IF b.state = "OPEN"
    THEN IF shouldAttemptReset(b, t)
           THEN [breaker |-> [b EXCEPT !.state = "HALF_OPEN"], run |-> TRUE]
           ELSE [breaker |-> b, run |-> FALSE]
    ELSE [breaker |-> b, run |-> TRUE]

reset(b) ==
  [b EXCEPT !.state = "CLOSED", !.failureCount = 0, !.successCount = 0,
            !.lastFailureTime = Undefined, !.nextAttemptTime = Undefined]

getStats(b) ==
  [state           |-> b.state,
   failureCount    |-> b.failureCount,
   successCount    |-> b.successCount,
   lastFailureTime |-> b.lastFailureTime,
   nextAttemptTime |-> b.nextAttemptTime]

\* -------------------------------------------- ResilientHttpService (class)
\* An error an attempt can end with: error.response?.status, error.code.
NoError      == [name |-> "none", status |-> Undefined, code |-> "none"]
TimeoutError == [name |-> "TimeoutError", status |-> Undefined, code |-> "none"]
TypeError    == [name |-> "TypeError", status |-> Undefined, code |-> "none"]
HttpErrors ==
  { [name |-> "AxiosError", status |-> 500, code |-> "ERR_BAD_RESPONSE"],
    [name |-> "AxiosError", status |-> 404, code |-> "ERR_BAD_REQUEST"],
    [name |-> "AxiosError", status |-> Undefined, code |-> "ECONNRESET"] }

\* retryCondition is absent ("default") or a predicate of the caller's
RetryConditions == {"default", "always", "never"}

RetryConfigs ==
  [maxAttempts        : 1..MaxAttempts,
   delay              : 1..MaxDelay,
   exponentialBackoff : BOOLEAN,
   exponentialBase    : {ExponentialBase},
   maxDelay           : {RetryMaxDelay},
   retryCondition     : RetryConditions]

NoRetry   == [maxAttempts |-> 1, delay |-> 1, exponentialBackoff |-> FALSE,
              exponentialBase |-> ExponentialBase, maxDelay |-> RetryMaxDelay,
              retryCondition |-> "default"]
NoBreaker == [failureThreshold |-> 1, resetTimeout |-> 1,
              fallbackHandler |-> "none"]

\* AxiosRequestConfig & ResilientHttpConfig, as extractResilientConfig reads
\* it: timeout, retry and circuitBreaker are each present or not
ResilientHttpConfigs ==
  { cfg \in [timeout : BOOLEAN,
             useRetry : BOOLEAN, retry : RetryConfigs,
             useBreaker : BOOLEAN, circuitBreaker : CircuitBreakerConfigs] :
      /\ cfg.circuitBreaker.resetTimeout = 1
      /\ cfg.circuitBreaker.fallbackHandler = "none"
      /\ ~cfg.useRetry => cfg.retry = NoRetry
      /\ ~cfg.useBreaker => cfg.circuitBreaker = NoBreaker }

Urls == {"https://a.example/x", "https://a.example/y", "url"}

\* new URL(url): protocol//host, or the url itself when it does not parse
getCircuitBreakerKey(url) ==
  CASE url = "https://a.example/x" -> "https://a.example"
    [] url = "https://a.example/y" -> "https://a.example"
    [] OTHER -> url

\* getOrCreateCircuitBreaker making a new breaker for every request
getOrCreateCircuitBreaker_AlwaysNew(cbs, url, config) ==
  LET key == getCircuitBreakerKey(url)
  IN  [k \in DOMAIN cbs \cup {key} |->
         IF k = key THEN CircuitBreaker(config) ELSE cbs[k]]

\* getOrCreateCircuitBreaker handing every target the breaker made last
getOrCreateCircuitBreaker_OneForAll(cbs, url, config) ==
  LET key == getCircuitBreakerKey(url)
  IN  IF key \in DOMAIN cbs THEN cbs
      ELSE [k \in DOMAIN cbs \cup {key} |-> CircuitBreaker(config)]

getOrCreateCircuitBreaker(cbs, url, config) ==
  LET key == getCircuitBreakerKey(url)
  IN  IF key \in DOMAIN cbs THEN cbs ELSE cbs @@ (key :> CircuitBreaker(config))

\* the default retryCondition of applyRetryLogic
defaultRetryCondition(error) ==
  (error.status # Undefined /\ error.status >= 500) \/ error.code = "ECONNRESET"

retryCondition(retry, error) ==
  CASE retry.retryCondition = "always" -> TRUE
    [] retry.retryCondition = "never"  -> FALSE
    [] OTHER -> defaultRetryCondition(error)

\* applyRetryLogic with the retry condition tested without its negation
applyRetryLogic_InvertedCondition(retry, retryCount, error) ==
  IF retryCount >= retry.maxAttempts \/ retryCondition(retry, error)
    THEN [throw |-> TRUE,  retryCount |-> retryCount,     delay |-> 0]
    ELSE [throw |-> FALSE, retryCount |-> retryCount + 1, delay |-> retry.delay]

\* the retryWhen notifier on one error: scan rethrows it or counts a retry,
\* which delay() then holds back
applyRetryLogic(retry, retryCount, error) ==
  IF retryCount >= retry.maxAttempts \/ ~retryCondition(retry, error)
    THEN [throw |-> TRUE,  retryCount |-> retryCount,     delay |-> 0]
    ELSE [throw |-> FALSE, retryCount |-> retryCount + 1, delay |-> retry.delay]

\* Array.prototype.slice(start) with start <= 0 (slice(-0) is slice(0))
slice(a, start) ==
  LET from == IF start < 0 THEN (IF Len(a) + start < 0 THEN 0 ELSE Len(a) + start)
                           ELSE (IF start > Len(a) THEN Len(a) ELSE start)
  IN  SubSeq(a, from + 1, Len(a))

\* recordMetrics keeping the first MetricsLimit entries instead of the last
recordMetrics_KeepsOldest(ms, url, method, duration, success, statusCode, error) ==
  LET pushed == Append(ms, [url |-> url, method |-> method,
                            duration |-> duration, success |-> success,
                            statusCode |-> statusCode, error |-> error])
  IN  IF Len(pushed) > MetricsLimit THEN SubSeq(pushed, 1, MetricsLimit)
                                    ELSE pushed

recordMetrics(ms, url, method, duration, success, statusCode, error) ==
  LET pushed == Append(ms, [url |-> url, method |-> method,
                            duration |-> duration, success |-> success,
                            statusCode |-> statusCode, error |-> error])
  IN  IF Len(pushed) > MetricsLimit THEN slice(pushed, -MetricsLimit) ELSE pushed

\* getMetrics(limit = 100): the default applies when limit is undefined
getMetrics(ms, limit) ==
  slice(ms, -(IF limit = Undefined THEN 100 ELSE limit))

clearMetrics(ms) == <<>>

\* getCircuitBreakerStats(url?): with a url, the stats of its key's breaker
\* if there is one; without (""), the stats of every breaker, in the
\* order of the map's keys
getCircuitBreakerStats(cbs, url) ==
  IF url # ""
    THEN LET key == getCircuitBreakerKey(url)
         IN  IF key \in DOMAIN cbs THEN <<getStats(cbs[key])>> ELSE <<>>
    ELSE LET RECURSIVE values(_)
             values(keys) ==
               IF keys = {} THEN <<>>
               ELSE LET k == CHOOSE k \in keys : TRUE
                    IN  <<getStats(cbs[k])>> \o values(keys \ {k})
         IN  values(DOMAIN cbs)

resetCircuitBreaker(cbs, url) ==
  LET key == getCircuitBreakerKey(url)
  IN  IF key \in DOMAIN cbs THEN [cbs EXCEPT ![key] = reset(cbs[key])] ELSE cbs

IdleReq ==
  [pc |-> "idle", url |-> "url", cfg |-> [timeout |-> FALSE, useRetry |-> FALSE,
     retry |-> NoRetry, useBreaker |-> FALSE, circuitBreaker |-> NoBreaker],
   startTime |-> 0, invocations |-> 0, retryCount |-> 0, wakeAt |-> 0,
   waits |-> <<>>, fails |-> 0, allQualify |-> TRUE, lastError |-> NoError,
   failureCountBefore |-> 0,
   result |-> [kind |-> "none", error |-> NoError]]

\* ------------------------------------------------- RateLimitGuard (class)
\* A length of time is an exact fraction n/d of clock units: the delay
\* multiplier and the jitter are not whole numbers.
Ms(n) == [n |-> n, d |-> 1]

Frac(n, d) == [n |-> n, d |-> d]

Leq(x, y) == x.n * y.d <= y.n * x.d

\* the whole clock units a timer of x runs
Ceil(x) == (x.n + x.d - 1) \div x.d

\* the constructor's defaults; delayMultiplier 1.5 is <<3, 2>>
DefaultOptions ==
  [windowMs |-> 15 * 60 * 1000, max |-> 100, strategy |-> "delay",
   delayMs |-> 1000, maxDelayMs |-> 30000, delayMultiplier |-> <<3, 2>>,
   message |-> "Rate limit exceeded. Request delayed."]

\* constructor: { ...defaults, ...options }, then delayAfter defaults to
\* 80% of max when it is absent or 0 (`!this.options.delayAfter`).
RateLimitGuard(opts) ==
  LET o == opts @@ DefaultOptions
  IN  [windowMs        |-> o.windowMs,
       max             |-> o.max,
       strategy        |-> o.strategy,
       delayMs         |-> o.delayMs,
       maxDelayMs      |-> o.maxDelayMs,
       delayMultiplier |-> o.delayMultiplier,
       message         |-> o.message,
       delayAfter      |-> IF "delayAfter" \notin DOMAIN o \/ o.delayAfter = 0
                             THEN (o.max * 8) \div 10
                             ELSE o.delayAfter,
       enableLogging   |-> "enableLogging" \in DOMAIN o /\ o.enableLogging]

\* The requests the guard sees: with request.ip, with only
\* request.connection.remoteAddress, and with neither ("" is an absent one).
HttpRequests ==
  { [ip |-> "10.0.0.1", connection |-> [remoteAddress |-> "10.0.0.1"]],
    [ip |-> "",         connection |-> [remoteAddress |-> "10.0.0.1"]],
    [ip |-> "",         connection |-> [remoteAddress |-> ""]] }

\* getKey(request): request.ip || request.connection.remoteAddress ||
\* 'unknown'.  Reading .remoteAddress of an absent connection throws.
getKey(request) ==
  IF "ip" \in DOMAIN request /\ request.ip # "" THEN request.ip
  ELSE IF "connection" \notin DOMAIN request THEN "TypeError"
  ELSE IF request.connection.remoteAddress # ""
         THEN request.connection.remoteAddress
  ELSE "unknown"

ClientKeys == {getKey(r) : r \in HttpRequests}

\* Math.random() is R / JitterSteps for some R in 0..JitterSteps-1
Randoms == 0..(JitterSteps - 1)

\* handleRejectStrategy(record)
handleRejectStrategy_AtMax(o, record) ==
  IF record.count >= o.max THEN "429" ELSE "true"

handleRejectStrategy(o, record) ==
  IF record.count > o.max THEN "429" ELSE "true"

\* the delay handleDelayStrategy computes for a record over delayAfter:
\* delayMs * multiplier^(excess - 1), Math.min with maxDelayMs, then the
\* jitter delay * 0.1 * (Math.random() - 0.5), then Math.max(0, ...)
progressiveDelay(o, count) ==
  LET excessRequests == count - o.delayAfter
  IN  Frac(o.delayMs * Pow(o.delayMultiplier[1], excessRequests - 1),
           Pow(o.delayMultiplier[2], excessRequests - 1))

cappedDelay(o, count) ==
  LET delay == progressiveDelay(o, count)
  IN  IF Leq(delay, Ms(o.maxDelayMs)) THEN delay ELSE Ms(o.maxDelayMs)

jitteredDelay_WideJitter(o, count, R) ==
  LET delay == cappedDelay(o, count)
      withJitter == Frac(delay.n * (3 * JitterSteps + 2 * R),
                         delay.d * 4 * JitterSteps)
  IN  IF withJitter.n < 0 THEN Ms(0) ELSE withJitter

jitteredDelay(o, count, R) ==
  LET delay == cappedDelay(o, count)
      withJitter == Frac(delay.n * (19 * JitterSteps + 2 * R),
                         delay.d * 20 * JitterSteps)
  IN  IF withJitter.n < 0 THEN Ms(0) ELSE withJitter

\* handleDelayStrategy(record): the outcome and the time slept.  With
\* enableLogging the log line evaluates this.getKey(record), and a record
\* has neither ip nor connection.
handleDelayStrategy(o, record, R) ==
  IF record.count <= o.delayAfter
    THEN [result |-> "true", sleeps |-> FALSE, wait |-> Ms(0)]
  ELSE IF o.enableLogging /\ getKey(record) = "TypeError"
    THEN [result |-> "TypeError", sleeps |-> FALSE, wait |-> Ms(0)]
  ELSE [result |-> "true", sleeps |-> TRUE,
        wait |-> jitteredDelay(o, record.count, R)]

Live(rs, key, t) == key \in DOMAIN rs /\ ~(t > rs[key].resetTime)

\* canActivate with a window that slides: every request moves resetTime
canActivate_SlidingWindow(o, rs, request, t, R) ==
  LET key == getKey(request)
  IN  IF key \notin DOMAIN rs \/ t > rs[key].resetTime
        THEN [requests |-> (key :> [count |-> 1, resetTime |-> t + o.windowMs,
                                    lastRequest |-> t]) @@ rs,
              result |-> "true", sleeps |-> FALSE, wait |-> Ms(0)]
        ELSE LET record == [rs[key] EXCEPT !.count = @ + 1,
                                           !.resetTime = t + o.windowMs,
                                           !.lastRequest = t]
                 h == IF o.strategy = "reject"
                        THEN [result |-> handleRejectStrategy(o, record),
                              sleeps |-> FALSE, wait |-> Ms(0)]
                        ELSE handleDelayStrategy(o, record, R)
             IN  [requests |-> [rs EXCEPT ![key] = record],
                  result |-> h.result, sleeps |-> h.sleeps, wait |-> h.wait]

\* canActivate(context) up to its return or its sleep: the record map
\* afterwards, the outcome, and the time slept before returning true
canActivate_ExpiresAtReset(o, rs, request, t, R) ==
  LET key == getKey(request)
  IN  IF key \notin DOMAIN rs \/ t >= rs[key].resetTime
        THEN [requests |-> (key :> [count |-> 1, resetTime |-> t + o.windowMs,
                                    lastRequest |-> t]) @@ rs,
              result |-> "true", sleeps |-> FALSE, wait |-> Ms(0)]
        ELSE LET record == [rs[key] EXCEPT !.count = @ + 1,
                                           !.lastRequest = t]
                 h == IF o.strategy = "reject"
                        THEN [result |-> handleRejectStrategy(o, record),
                              sleeps |-> FALSE, wait |-> Ms(0)]
                        ELSE handleDelayStrategy(o, record, R)
             IN  [requests |-> [rs EXCEPT ![key] = record],
                  result |-> h.result, sleeps |-> h.sleeps, wait |-> h.wait]

canActivate(o, rs, request, t, R) ==
  LET key == getKey(request)
  IN  IF key \notin DOMAIN rs \/ t > rs[key].resetTime
        THEN [requests |-> (key :> [count |-> 1, resetTime |-> t + o.windowMs,
                                    lastRequest |-> t]) @@ rs,
              result |-> "true", sleeps |-> FALSE, wait |-> Ms(0)]
        ELSE LET record == [rs[key] EXCEPT !.count = @ + 1,
                                           !.lastRequest = t]
                 h == IF o.strategy = "reject"
                        THEN [result |-> handleRejectStrategy(o, record),
                              sleeps |-> FALSE, wait |-> Ms(0)]
                        ELSE handleDelayStrategy(o, record, R)
             IN  [requests |-> [rs EXCEPT ![key] = record],
                  result |-> h.result, sleeps |-> h.sleeps, wait |-> h.wait]

NoStatus ==
  [requests |-> 0, remaining |-> 0, resetTime |-> 0, resetIn |-> 0,
   strategy |-> "none", willDelay |-> FALSE]

\* getStatus(request)
getStatus_NegativeRemaining(o, rs, request, t) ==
  LET key == getKey(request)
  IN  IF key \notin DOMAIN rs \/ t > rs[key].resetTime
        THEN [requests |-> 0, remaining |-> o.max,
              resetTime |-> t + o.windowMs, resetIn |-> o.windowMs,
              strategy |-> o.strategy, willDelay |-> FALSE]
        ELSE LET record == rs[key]
             IN  [requests |-> record.count,
                  remaining |-> o.max - record.count,
                  resetTime |-> record.resetTime,
                  resetIn |-> record.resetTime - t,
                  strategy |-> o.strategy,
                  willDelay |-> o.strategy = "delay"
                                  /\ record.count > o.delayAfter]

getStatus(o, rs, request, t) ==
  LET key == getKey(request)
  IN  IF key \notin DOMAIN rs \/ t > rs[key].resetTime
        THEN [requests |-> 0, remaining |-> o.max,
              resetTime |-> t + o.windowMs, resetIn |-> o.windowMs,
              strategy |-> o.strategy, willDelay |-> FALSE]
        ELSE LET record == rs[key]
             IN  [requests |-> record.count,
                  remaining |-> Max(0, o.max - record.count),
                  resetTime |-> record.resetTime,
                  resetIn |-> record.resetTime - t,
                  strategy |-> o.strategy,
                  willDelay |-> o.strategy = "delay"
                                  /\ record.count > o.delayAfter]

\* ------------------------------------------------------------------ state
VARIABLES
  now,          \* Date.now()
  breaker,      \* a CircuitBreaker used directly, as the unit tests do
  calls,        \* the execute calls in flight on `breaker`: how many, by
                \* the state each found the breaker in on entering execute
  last,         \* the latest execute / completion on `breaker`: its outcome
  issued,       \* number of execute calls made on `breaker`
  nFail,        \* operations of `breaker` that have failed so far
  onlyFail,     \* no operation has succeeded and reset() was not called
  probeFailAt,  \* time of the last failed probe (Undefined: none, or reset)
  sinceClosed,  \* operations that have failed since `breaker` was made or
                \* last went to CLOSED from another state or was reset
  circuitBreakers,  \* ResilientHttpService.circuitBreakers: key -> breaker
  metrics,          \* ResilientHttpService.metrics
  req,              \* the service's request in progress: configuration,
                    \* position and outcome
  served,           \* number of requests made on the service
  reply,            \* the service's latest step, when it was a monitoring
                    \* call, and what the call returned
  options,      \* RateLimitGuard.options, after the constructor
  requests,     \* RateLimitGuard.requests: client key -> record
  arrived,      \* the request whose canActivate is being entered, if any
  sleeping,     \* the pending sleep timers of canActivate calls: the
                \* times they are due, in order
  answer        \* what the guard's latest step returned to its caller

bvars == <<breaker, calls, last, issued, nFail, onlyFail, probeFailAt,
           sinceClosed>>
hvars == <<circuitBreakers, metrics, req, served, reply>>
rvars == <<options, requests, arrived, sleeping, answer>>
vars  == <<now, breaker, calls, last, issued, nFail, onlyFail, probeFailAt,
           sinceClosed,
           circuitBreakers, metrics, req, served, reply,
           options, requests, arrived, sleeping, answer>>

\* The state a call found the breaker in on entering execute; a call that
\* found it OPEN and was let through is the probe.
States == {"CLOSED", "OPEN", "HALF_OPEN"}

NoResult == [kind |-> "none", val |-> "none"]
NoCalls  == [k \in States |-> 0]
NoCall   == [op |-> "none", found |-> "CLOSED", invoked |-> 0, result |-> NoResult]

\* no monitoring call made yet
NoReply == [op |-> "none", url |-> "", limit |-> 0, value |-> <<>>]

NoAnswer ==
  [op |-> "none", key |-> "none", result |-> "none", wait |-> Ms(0),
   status |-> NoStatus]

\* the guard as constructed with no options, and not used
GuardUnused ==
  /\ options = RateLimitGuard(<<>>)
  /\ requests = <<>>
  /\ arrived = {}
  /\ sleeping = <<>>
  /\ answer = NoAnswer

InFlight == calls["CLOSED"] + calls["OPEN"] + calls["HALF_OPEN"]

Init ==
  /\ now = 0
  /\ breaker \in {CircuitBreaker(c) : c \in CircuitBreakerConfigs}
  /\ calls = NoCalls
  /\ last = NoCall
  /\ issued = 0
  /\ nFail = 0
  /\ onlyFail = TRUE
  /\ probeFailAt = Undefined
  /\ sinceClosed = 0
  /\ circuitBreakers = <<>>
  /\ metrics = <<>>
  /\ req = IdleReq
  /\ served = 0
  /\ reply = NoReply
  /\ GuardUnused

\* breaker.execute(operation): the OPEN test, then operation() is invoked
\* and the piped observable returned, or the open-circuit observable is.
Execute ==
  /\ InFlight < NumCalls
  /\ issued < MaxCalls
  /\ LET r == execute(breaker, now)
     IN  /\ breaker' = r.breaker
         /\ calls' = IF r.run THEN [calls EXCEPT ![breaker.state] = @ + 1]
                              ELSE calls
         /\ last' = [op |-> "execute", found |-> breaker.state,
                     invoked |-> IF r.run THEN 1 ELSE 0,
                     result |-> IF r.run THEN NoResult
                                         ELSE handleOpenCircuit(breaker)]
  /\ issued' = issued + 1
  /\ UNCHANGED <<now, nFail, onlyFail, probeFailAt, sinceClosed, hvars, rvars>>

\* the operation of a call in flight emits its value: tap -> onSuccess
Succeed(k) ==
  /\ calls[k] > 0
  /\ breaker' = onSuccess(breaker)
  /\ calls' = [calls EXCEPT ![k] = @ - 1]
  /\ last' = [op |-> "succeed", found |-> k, invoked |-> 1,
              result |-> [kind |-> "value", val |-> "ok"]]
  /\ onlyFail' = FALSE
  /\ sinceClosed' = IF breaker.state # "CLOSED" /\ breaker'.state = "CLOSED"
                      THEN 0 ELSE sinceClosed
  /\ UNCHANGED <<now, issued, nFail, probeFailAt, hvars, rvars>>

\* the operation of a call in flight errors: catchError -> onFailure, and
\* the error is rethrown
Fail(k) ==
  /\ calls[k] > 0
  /\ breaker' = onFailure(breaker, now)
  /\ calls' = [calls EXCEPT ![k] = @ - 1]
  /\ last' = [op |-> "fail", found |-> k, invoked |-> 1,
              result |-> [kind |-> "error", val |-> "fail"]]
  /\ nFail' = nFail + 1
  /\ probeFailAt' = IF k = "OPEN" /\ breaker.state = "HALF_OPEN"
                      THEN now ELSE probeFailAt
  /\ sinceClosed' = IF breaker.state # "CLOSED" /\ breaker'.state = "CLOSED"
                      THEN 0 ELSE sinceClosed + 1
  /\ UNCHANGED <<now, issued, onlyFail, hvars, rvars>>

Reset ==
  /\ breaker' = reset(breaker)
  /\ onlyFail' = FALSE
  /\ probeFailAt' = Undefined
  /\ sinceClosed' = 0
  /\ UNCHANGED <<now, calls, last, issued, nFail, hvars, rvars>>

\* breaker.getStats(): a snapshot of the fields
GetStats ==
  /\ last' = [op |-> "getStats", found |-> getStats(breaker).state,
              invoked |-> 0, result |-> NoResult]
  /\ UNCHANGED <<now, breaker, calls, issued, nFail, onlyFail, probeFailAt,
                 sinceClosed, hvars, rvars>>

Tick ==
  /\ now < MaxTime
  /\ now' = now + 1
  /\ UNCHANGED <<bvars, hvars, rvars>>

Next ==
  \/ Execute
  \/ \E k \in States : Succeed(k)
  \/ \E k \in States : Fail(k)
  \/ Reset
  \/ GetStats
  \/ Tick

Spec == Init /\ [][Next]_vars

\* Sequential use of the breaker, as in the unit tests: a call is made only
\* when no earlier call is still in flight.
ExecuteSeq == InFlight = 0 /\ Execute

NextSeq ==
  \/ ExecuteSeq
  \/ \E k \in States : Succeed(k)
  \/ \E k \in States : Fail(k)
  \/ Reset
  \/ GetStats
  \/ Tick

SpecSeq == Init /\ [][NextSeq]_vars

\* ----------------------------------------------- the service's operations
FailureCountOf(cbs, url) ==
  IF getCircuitBreakerKey(url) \in DOMAIN cbs
    THEN cbs[getCircuitBreakerKey(url)].failureCount ELSE 0

\* get(url, config) -> makeRequest: the pipeline is assembled.  With a
\* circuitBreaker configured, execute() runs its OPEN test and calls
\* operation(), which only hands back the unsubscribed request; execute is
\* async, so `request` becomes a Promise and request.pipe(...) throws a
\* TypeError out of makeRequest: nothing is subscribed and no metric is
\* recorded.  Otherwise the caller subscribes and the first attempt starts.
MakeRequest(url, cfg) ==
  /\ req.pc \in {"idle", "done"}
  /\ served < MaxRequests
  /\ served' = served + 1
  /\ LET fresh == [IdleReq EXCEPT !.url = url, !.cfg = cfg, !.startTime = now,
                     !.failureCountBefore = FailureCountOf(circuitBreakers, url)]
     IN  IF cfg.useBreaker
           THEN LET cbs == getOrCreateCircuitBreaker(circuitBreakers, url,
                                                     cfg.circuitBreaker)
                    key == getCircuitBreakerKey(url)
                IN  /\ circuitBreakers' =
                         [cbs EXCEPT ![key] = execute(cbs[key], now).breaker]
                    /\ req' = [fresh EXCEPT !.pc = "done",
                            !.result = [kind |-> "error", error |-> TypeError]]
           ELSE /\ circuitBreakers' = circuitBreakers
                /\ req' = [fresh EXCEPT !.pc = "running", !.invocations = 1]
  /\ reply' = NoReply
  /\ UNCHANGED <<now, metrics, bvars, rvars>>

\* the attempt in flight responds: the response reaches the caller
AttemptSucceeds ==
  /\ req.pc = "running"
  /\ metrics' = recordMetrics(metrics, req.url, "GET",
                              now - req.startTime, TRUE, 200, "none")
  /\ req' = [req EXCEPT !.pc = "done",
                        !.result = [kind |-> "value", error |-> NoError]]
  /\ reply' = NoReply
  /\ UNCHANGED <<now, circuitBreakers, served, bvars, rvars>>

\* the attempt in flight errors (TimeoutError only under a timeout): without
\* retry, or when scan rethrows, the error reaches the caller; otherwise the
\* source is resubscribed once the delay has gone by
AttemptFails(error) ==
  /\ req.pc = "running"
  /\ error \in HttpErrors \cup (IF req.cfg.timeout THEN {TimeoutError} ELSE {})
  /\ LET q == req
         s == applyRetryLogic(q.cfg.retry, q.retryCount, error)
         seen == [q EXCEPT !.fails = @ + 1, !.lastError = error,
                    !.allQualify = @ /\ retryCondition(q.cfg.retry, error)]
     IN  IF ~q.cfg.useRetry \/ s.throw
           THEN /\ metrics' = recordMetrics(metrics, q.url, "GET",
                                 now - q.startTime, FALSE, error.status,
                                 error.name)
                /\ req' = [seen EXCEPT !.pc = "done",
                              !.result = [kind |-> "error", error |-> error]]
           ELSE /\ metrics' = metrics
                /\ req' = [seen EXCEPT !.pc = "waiting",
                              !.retryCount = s.retryCount,
                              !.wakeAt = now + s.delay,
                              !.waits = Append(@, s.delay)]
  /\ reply' = NoReply
  /\ UNCHANGED <<now, circuitBreakers, served, bvars, rvars>>

\* the retry delay has elapsed: retryWhen resubscribes to the request
Resubscribe ==
  /\ req.pc = "waiting"
  /\ now >= req.wakeAt
  /\ req' = [req EXCEPT !.pc = "running", !.invocations = @ + 1]
  /\ reply' = NoReply
  /\ UNCHANGED <<now, circuitBreakers, metrics, served, bvars, rvars>>

InitHttp ==
  /\ now = 0
  /\ breaker = CircuitBreaker(NoBreaker)
  /\ calls = NoCalls
  /\ last = NoCall
  /\ issued = 0
  /\ nFail = 0
  /\ onlyFail = TRUE
  /\ probeFailAt = Undefined
  /\ sinceClosed = 0
  /\ circuitBreakers = <<>>
  /\ metrics = <<>>
  /\ req = IdleReq
  /\ served = 0
  /\ reply = NoReply
  /\ GuardUnused

\* Requests of every kind against the service; the retry policy is one of
\* two, the breaker configuration one of MaxThreshold.
HttpCallConfigs ==
  { cfg \in ResilientHttpConfigs :
      /\ ~cfg.timeout
      /\ cfg.retry.delay = 1 /\ cfg.retry.exponentialBackoff
      /\ cfg.retry.retryCondition = "default" }

NextHttp ==
  \/ \E url \in Urls, cfg \in HttpCallConfigs : MakeRequest(url, cfg)
  \/ AttemptSucceeds
  \/ \E error \in HttpErrors \cup {TimeoutError} : AttemptFails(error)
  \/ Resubscribe
  \/ Tick

SpecHttp == InitHttp /\ [][NextHttp]_vars

\* The retry study: requests to one url with every timeout and retry
\* configuration and no circuit breaker.
RetryCallConfigs == { cfg \in ResilientHttpConfigs : ~cfg.useBreaker }

MakeRetriedRequest(cfg) ==
  served < MaxRetryRuns /\ MakeRequest("https://a.example/x", cfg)

NextRetry ==
  \/ \E cfg \in RetryCallConfigs : MakeRetriedRequest(cfg)
  \/ AttemptSucceeds
  \/ \E error \in HttpErrors \cup {TimeoutError} : AttemptFails(error)
  \/ Resubscribe
  \/ Tick

SpecRetry == InitHttp /\ [][NextRetry]_vars

\* ------------------------------------------- the service's monitoring calls
GetMetrics(limit) ==
  /\ reply' = [NoReply EXCEPT !.op = "getMetrics", !.limit = limit,
                                !.value = getMetrics(metrics, limit)]
  /\ UNCHANGED <<now, circuitBreakers, metrics, req, served, bvars, rvars>>

ClearMetrics ==
  /\ metrics' = clearMetrics(metrics)
  /\ reply' = NoReply
  /\ UNCHANGED <<now, circuitBreakers, req, served, bvars, rvars>>

GetCircuitBreakerStats(url) ==
  /\ reply' = [NoReply EXCEPT !.op = "getCircuitBreakerStats", !.url = url,
                  !.value = getCircuitBreakerStats(circuitBreakers, url)]
  /\ UNCHANGED <<now, circuitBreakers, metrics, req, served, bvars, rvars>>

ResetCircuitBreaker(url) ==
  /\ circuitBreakers' = resetCircuitBreaker(circuitBreakers, url)
  /\ reply' = [NoReply EXCEPT !.op = "resetCircuitBreaker", !.url = url]
  /\ UNCHANGED <<now, metrics, req, served, bvars, rvars>>

\* The metrics buffer, studied on a service that has already answered n
\* requests to 'url', which succeeded and failed in turn: the buffer is
\* empty, one short of MetricsLimit, or full.  The requests made now are
\* plain (no timeout, retry or breaker) and answered at once: the clock
\* stands still and every duration is 0.
Recorded(n) ==
  [i \in 1..n |->
     IF i % 2 = 1
       THEN [url |-> "url", method |-> "GET", duration |-> 0, success |-> TRUE,
             statusCode |-> 200, error |-> "none"]
       ELSE [url |-> "url", method |-> "GET", duration |-> 0, success |-> FALSE,
             statusCode |-> 500, error |-> "AxiosError"]]

Backlogs == {0, MetricsLimit - 1, MetricsLimit}

QueryLimits == (0..MaxQuery) \cup {Undefined}

InitMetrics ==
  /\ now = 0
  /\ breaker = CircuitBreaker(NoBreaker)
  /\ calls = NoCalls
  /\ last = NoCall
  /\ issued = 0
  /\ nFail = 0
  /\ onlyFail = TRUE
  /\ probeFailAt = Undefined
  /\ sinceClosed = 0
  /\ circuitBreakers = <<>>
  /\ metrics \in {Recorded(n) : n \in Backlogs}
  /\ req = IdleReq
  /\ served = 0
  /\ reply = NoReply
  /\ GuardUnused

NextMetrics ==
  \/ MakeRequest("url", IdleReq.cfg)
  \/ AttemptSucceeds
  \/ \E error \in HttpErrors : AttemptFails(error)
  \/ \E limit \in QueryLimits : GetMetrics(limit)
  \/ ClearMetrics

SpecMetrics == InitMetrics /\ [][NextMetrics]_vars

\* The service's breakers by target, and their monitoring calls: requests
\* that configure a breaker or nothing, to urls of two targets.  A request
\* is answered at once: the clock stands still.
BreakerCallConfigs ==
  { cfg \in ResilientHttpConfigs : ~cfg.timeout /\ ~cfg.useRetry }

NextBreakers ==
  \/ \E url \in Urls, cfg \in BreakerCallConfigs : MakeRequest(url, cfg)
  \/ AttemptSucceeds
  \/ \E error \in HttpErrors : AttemptFails(error)
  \/ \E url \in Urls \cup {""} : GetCircuitBreakerStats(url)
  \/ \E url \in Urls : ResetCircuitBreaker(url)

SpecBreakers == InitHttp /\ [][NextBreakers]_vars

\* ------------------------------------------------ the guard's operations
\* the options a guard is constructed with; an option left out takes the
\* constructor's default
WindowSizes == 1..MaxWindow
Limits      == 1..MaxLimit

RejectOptions ==
  [windowMs : WindowSizes, max : Limits, strategy : {"reject"}]

\* delayMultiplier is left out (1.5); delayAfter 0 is the default, 80% of max
DelayOptions ==
  [windowMs : WindowSizes, max : Limits, strategy : {"delay"},
   delayAfter : {0, 1}, delayMs : {1}, maxDelayMs : {MaxSleep},
   enableLogging : BOOLEAN]

\* Math.random() at its two ends: the shortest and the longest sleep
RateRandoms == {0, JitterSteps - 1}

\* requests counted in one window of one client
MaxCount == MaxLimit + 1

InitRate ==
  /\ now = 0
  /\ breaker = CircuitBreaker([failureThreshold |-> 1, resetTimeout |-> 1,
                               fallbackHandler |-> "none"])
  /\ calls = NoCalls
  /\ last = NoCall
  /\ issued = 0
  /\ nFail = 0
  /\ onlyFail = TRUE
  /\ probeFailAt = Undefined
  /\ sinceClosed = 0
  /\ circuitBreakers = <<>>
  /\ metrics = <<>>
  /\ req = IdleReq
  /\ served = 0
  /\ reply = NoReply
  /\ options \in {RateLimitGuard(o) : o \in RejectOptions \cup DelayOptions}
  /\ requests = <<>>
  /\ arrived = {}
  /\ sleeping = <<>>
  /\ answer = NoAnswer

\* the longest sleep a call can be put to, in whole clock units
SleepHorizon ==
  IF options.strategy = "reject" THEN 0
  ELSE (options.maxDelayMs * 21 + 19) \div 20

\* a request reaches the guard: canActivate(context) is called.  JavaScript
\* runs one call at a time up to its first await.  A call is made only
\* while the clock has room left for its sleep.
Arrive(request) ==
  /\ arrived = {}
  /\ Len(sleeping) < NumSleeping
  /\ Live(requests, getKey(request), now)
       => requests[getKey(request)].count < MaxCount
  /\ now + SleepHorizon <= MaxRateTime
  /\ arrived' = {request}
  /\ answer' = NoAnswer
  /\ UNCHANGED <<now, options, requests, sleeping, bvars, hvars>>

\* the timers with one due at time t added
Schedule(timers, t) ==
  LET i == Cardinality({j \in 1..Len(timers) : timers[j] <= t})
  IN  SubSeq(timers, 1, i) \o <<t>> \o SubSeq(timers, i + 1, Len(timers))

\* canActivate runs up to its return, its throw, or its sleep
CanActivate(R) ==
  \E request \in arrived :
    LET r == canActivate(options, requests, request, now, R)
    IN  /\ requests' = r.requests
        /\ arrived' = {}
        /\ IF r.sleeps
             THEN /\ sleeping' = Schedule(sleeping, now + Ceil(r.wait))
                  /\ answer' = NoAnswer
             ELSE /\ sleeping' = sleeping
                  /\ answer' = [NoAnswer EXCEPT !.op = "canActivate",
                                  !.key = getKey(request), !.result = r.result]
        /\ UNCHANGED <<now, options, bvars, hvars>>

\* sleep(ms): a timer that is due fires, and its canActivate returns true
Wake(i) ==
  /\ i \in 1..Len(sleeping)
  /\ now >= sleeping[i]
  /\ sleeping' = SubSeq(sleeping, 1, i - 1)
                   \o SubSeq(sleeping, i + 1, Len(sleeping))
  /\ answer' = [NoAnswer EXCEPT !.op = "canActivate", !.result = "true"]
  /\ UNCHANGED <<now, options, requests, arrived, bvars, hvars>>

GetStatus(request) ==
  /\ answer' = [NoAnswer EXCEPT !.op = "getStatus", !.key = getKey(request),
                  !.status = getStatus(options, requests, request, now)]
  /\ UNCHANGED <<now, options, requests, arrived, sleeping, bvars, hvars>>

\* Date.now() advances; canActivate reads it on entry, so no time passes
\* between a request's arrival and that read
RateTick ==
  /\ now < MaxRateTime
  /\ arrived = {}
  /\ now' = now + 1
  /\ answer' = NoAnswer
  /\ UNCHANGED <<options, requests, arrived, sleeping, bvars, hvars>>

NextRate ==
  \/ \E request \in HttpRequests : Arrive(request)
  \/ \E R \in RateRandoms : CanActivate(R)
  \/ \E i \in 1..NumSleeping : Wake(i)
  \/ \E request \in HttpRequests : GetStatus(request)
  \/ RateTick

SpecRate == InitRate /\ [][NextRate]_vars

\* The event loop runs a call that has arrived, fires a timer that is due,
\* and the clock advances.
\* The delay applied to a request, studied on its own: the guard of canActivate's doc example (max 10,
\* delayAfter 7, delayMs 1000, multiplier 1.5), the README's guard (that
\* one with maxDelayMs 10000), and guards with small options.
Multipliers == {<<1, 1>>, <<3, 2>>, <<2, 1>>}

DocOptions ==
  [max |-> 10, strategy |-> "delay", delayAfter |-> 7, delayMs |-> 1000,
   delayMultiplier |-> <<3, 2>>]

ReadmeOptions ==
  [windowMs |-> 15 * 60 * 1000, max |-> 10, strategy |-> "delay",
   delayAfter |-> 7, delayMs |-> 1000, maxDelayMs |-> 10000,
   delayMultiplier |-> <<3, 2>>]

SmallOptions ==
  [max : Limits, strategy : {"delay"}, delayAfter : 0..MaxLimit,
   delayMs : 1..MaxSleep, maxDelayMs : 1..MaxSleep,
   delayMultiplier : Multipliers, enableLogging : BOOLEAN]

InitDelay ==
  /\ now = 0
  /\ breaker = CircuitBreaker([failureThreshold |-> 1, resetTimeout |-> 1,
                               fallbackHandler |-> "none"])
  /\ calls = NoCalls
  /\ last = NoCall
  /\ issued = 0
  /\ nFail = 0
  /\ onlyFail = TRUE
  /\ probeFailAt = Undefined
  /\ sinceClosed = 0
  /\ circuitBreakers = <<>>
  /\ metrics = <<>>
  /\ req = IdleReq
  /\ served = 0
  /\ reply = NoReply
  /\ options \in {RateLimitGuard(o) :
                    o \in {DocOptions, ReadmeOptions} \cup SmallOptions}
  /\ requests = <<>>
  /\ arrived = {}
  /\ sleeping = <<>>
  /\ answer = NoAnswer

\* canActivate for the count-th request of a client's window, as a
\* function of the options, the count and Math.random(): the outcome and
\* the delay the call sleeps before it returns
NthRequest(count, R) ==
  LET request == CHOOSE r \in HttpRequests : r.ip # ""
      key == getKey(request)
      rs  == IF count = 1 THEN <<>>
             ELSE (key :> [count |-> count - 1, resetTime |-> options.windowMs,
                           lastRequest |-> 0])
      r   == canActivate(options, rs, request, now, R)
  IN  /\ requests' = r.requests
      /\ answer' = [NoAnswer EXCEPT !.op = "canActivate", !.key = key,
                      !.result = r.result, !.wait = r.wait]
      /\ UNCHANGED <<now, options, arrived, sleeping, bvars, hvars>>

NextDelay == \E count \in 1..MaxStudyCount, R \in Randoms : NthRequest(count, R)

SpecDelay == InitDelay /\ [][NextDelay]_vars

\* Targets and clients side by side: a service whose requests configure a
\* breaker, beside a guard that rejects.  The guard is new, or it counted
\* one request of each client in a window that has since run out; the
\* clock stands still.
KeyOptions == {o \in RejectOptions : o.windowMs = 1}

InitKeys ==
  /\ options \in {RateLimitGuard(o) : o \in KeyOptions}
  /\ now \in {0, options.windowMs + 1}
  /\ breaker = CircuitBreaker(NoBreaker)
  /\ calls = NoCalls
  /\ last = NoCall
  /\ issued = 0
  /\ nFail = 0
  /\ onlyFail = TRUE
  /\ probeFailAt = Undefined
  /\ sinceClosed = 0
  /\ circuitBreakers = <<>>
  /\ metrics = <<>>
  /\ req = IdleReq
  /\ served = 0
  /\ reply = NoReply
  /\ requests = IF now = 0 THEN <<>>
                ELSE [k \in ClientKeys |->
                        [count |-> 1, resetTime |-> options.windowMs,
                         lastRequest |-> 0]]
  /\ arrived = {}
  /\ sleeping = <<>>
  /\ answer = NoAnswer

NextKeys ==
  \/ \E url \in Urls, cfg \in BreakerCallConfigs :
       cfg.useBreaker /\ MakeRequest(url, cfg)
  \/ \E url \in Urls : ResetCircuitBreaker(url)
  \/ \E request \in HttpRequests : Arrive(request)
  \/ \E R \in RateRandoms : CanActivate(R)

SpecKeys == InitKeys /\ [][NextKeys]_vars

SpecRateFair ==
  /\ InitRate /\ [][NextRate]_vars
  /\ WF_vars(\E R \in RateRandoms : CanActivate(R))
  /\ WF_vars(\E i \in 1..NumSleeping : Wake(i))
  /\ WF_vars(RateTick)

\* ------------------------------------------------------------- properties
Threshold    == breaker.config.failureThreshold
ResetTimeout == breaker.config.resetTimeout
Due          == breaker.nextAttemptTime # Undefined /\ now >= breaker.nextAttemptTime
\* the execute call of this step returned without invoking its operation
ShortCircuited == last'.op = "execute" /\ last'.invoked = 0 /\ calls' = calls

\* C1: on a fresh breaker on which every operation so far has failed, the
\* failure that brings the number of failures to failureThreshold or beyond
\* leaves getStats().state = OPEN, and an execute call made after those
\* failures and before nextAttemptTime is short-circuited: its operation is
\* not invoked.
C1_OpensAfterThreshold ==
  [][ /\ \A k \in States :
           (Fail(k) /\ onlyFail /\ nFail' >= Threshold)
             => getStats(breaker').state = "OPEN"
      /\ (Execute /\ onlyFail /\ nFail >= Threshold
             /\ now < breaker.nextAttemptTime)
           => ShortCircuited ]_vars

C1_Witness ==
  /\ onlyFail /\ nFail >= Threshold /\ breaker.state = "OPEN"
  /\ now < breaker.nextAttemptTime
  /\ last.op = "execute" /\ last.invoked = 0

C3_SingleTrial ==
  [][ (Execute /\ breaker.state = "HALF_OPEN" /\ calls["OPEN"] > 0)
        => last'.invoked = 0 ]_vars

\* C4: when the probe fails while the breaker is HALF_OPEN the breaker is
\* OPEN with nextAttemptTime = (time of that failure) + resetTimeout, and
\* (reset() aside) every execute call made less than resetTimeout after that
\* failure is short-circuited.
C4_ReopensOnFailedProbe ==
  [][ /\ (Fail("OPEN") /\ breaker.state = "HALF_OPEN")
           => /\ breaker'.state = "OPEN"
              /\ breaker'.nextAttemptTime = now + ResetTimeout
      /\ (Execute /\ probeFailAt # Undefined
             /\ now < probeFailAt + ResetTimeout)
           => ShortCircuited /\ breaker'.state = "OPEN" ]_vars

C4_Witness ==
  /\ probeFailAt # Undefined /\ now < probeFailAt + ResetTimeout
  /\ breaker.state = "OPEN"
  /\ last.op = "execute" /\ last.invoked = 0

\* C5: an execute call on an OPEN breaker whose nextAttemptTime is still in
\* the future does not invoke the operation and leaves the breaker as it
\* was, OPEN; the caller gets the circuit-open error when there is no
\* fallback handler, the handler's return value when there is one, and the
\* handler's own error when it throws.
C5_OpenShortCircuits ==
  [][ (Execute /\ breaker.state = "OPEN" /\ ~Due)
        => /\ ShortCircuited
           /\ breaker' = breaker
           /\ breaker.config.fallbackHandler = "none"
                => last'.result = [kind |-> "error", val |-> "Circuit breaker is OPEN"]
           /\ breaker.config.fallbackHandler = "returns"
                => last'.result = [kind |-> "value", val |-> "fallbackResult"]
           /\ breaker.config.fallbackHandler = "throws"
                => last'.result = [kind |-> "error", val |-> "fallbackError"] ]_vars

C5_Witness ==
  /\ breaker.state = "OPEN" /\ ~Due
  /\ last.op = "execute" /\ last.invoked = 0
  /\ last.result = [kind |-> "error", val |-> "fallbackError"]

\* -------------------------------------------------- properties of the retry
Retried      == req.pc # "idle" /\ req.cfg.useRetry /\ ~req.cfg.useBreaker
AttemptErrors == HttpErrors \cup {TimeoutError}

\* C6: a retried request whose work fails every time with a retry-qualifying
\* error has invoked the work exactly maxAttempts times when the failure
\* reaches the caller, and no request invokes it more than maxAttempts times.
C6_RetryRespectsMaxAttempts ==
  Retried =>
    /\ req.invocations <= req.cfg.retry.maxAttempts
    /\ (req.pc = "done" /\ req.result.kind = "error" /\ req.allQualify)
         => req.invocations = req.cfg.retry.maxAttempts

\* C7: a retried request whose work has failed k < maxAttempts times, each
\* time with a retry-qualifying error, has not failed to its caller; when the
\* work then succeeds the caller has the success value and the work was
\* invoked exactly k+1 times.
C7_RetryShortCircuitsOnSuccess ==
  (Retried /\ req.allQualify /\ req.fails < req.cfg.retry.maxAttempts) =>
    /\ req.result.kind # "error"
    /\ req.pc = "done" =>
         /\ req.result = [kind |-> "value", error |-> NoError]
         /\ req.invocations = req.fails + 1

C7_Witness ==
  /\ Retried /\ req.allQualify /\ req.pc = "done"
  /\ req.fails >= 1 /\ req.fails < req.cfg.retry.maxAttempts
  /\ req.result.kind = "value" /\ req.invocations = req.fails + 1

\* C8: a failed attempt is followed by another attempt only if retryCondition
\* holds for the failure and fewer than maxAttempts attempts have been made;
\* a failure for which retryCondition is false reaches the caller at once,
\* as the same error, with no further invocation of the work.
C8_RetryOnlyWhenQualifying ==
  [][ \A error \in AttemptErrors :
        (AttemptFails(error) /\ Retried) =>
          /\ req'.pc = "waiting" =>
               /\ retryCondition(req.cfg.retry, error)
               /\ req.invocations < req.cfg.retry.maxAttempts
          /\ ~retryCondition(req.cfg.retry, error) =>
               /\ req'.pc = "done"
               /\ req'.result = [kind |-> "error", error |-> error]
               /\ req'.invocations = req.invocations ]_vars

\* C9: a request configured with both retry and circuit breaker runs its
\* retry sequence inside one execute call: the work is invoked, a request
\* that ends in failure has raised the breaker's failureCount by exactly
\* one, and a request that ends in success has not raised it.
C9_OneBreakerFailurePerRequest ==
  (req.pc = "done" /\ req.cfg.useRetry /\ req.cfg.useBreaker) =>
    /\ req.invocations >= 1
    /\ req.result.kind = "error" =>
         FailureCountOf(circuitBreakers, req.url) = req.failureCountBefore + 1
    /\ req.result.kind = "value" =>
         FailureCountOf(circuitBreakers, req.url) = req.failureCountBefore

\* C10: with exponentialBackoff selected and exponentialBase > 1, the wait
\* after failed attempt n is min(delay * exponentialBase^(n-1), maxDelay);
\* the waits never decrease, grow strictly below the cap and never exceed it.
C10_ExponentialBackoff ==
  (Retried /\ req.cfg.retry.exponentialBackoff
           /\ req.cfg.retry.exponentialBase > 1) =>
    \A n \in 1..Len(req.waits) :
      /\ req.waits[n] = Min(req.cfg.retry.delay
                              * Pow(req.cfg.retry.exponentialBase, n - 1),
                            req.cfg.retry.maxDelay)
      /\ req.waits[n] <= req.cfg.retry.maxDelay
      /\ n > 1 =>
           /\ req.waits[n] >= req.waits[n - 1]
           /\ req.waits[n - 1] < req.cfg.retry.maxDelay
                => req.waits[n] > req.waits[n - 1]

\* the edges of the breaker's state machine
Edges ==
  {<<"CLOSED", "OPEN">>, <<"OPEN", "HALF_OPEN">>,
   <<"HALF_OPEN", "CLOSED">>, <<"HALF_OPEN", "OPEN">>}

\* C19: under any interleaving of execute calls and completions on one
\* breaker, reset() aside, every change of the breaker's state follows one
\* of the edges CLOSED->OPEN, OPEN->HALF_OPEN, HALF_OPEN->CLOSED,
\* HALF_OPEN->OPEN; never CLOSED->HALF_OPEN or OPEN->CLOSED.
C19_TransitionsFollowEdges ==
  [][(breaker'.state # breaker.state /\ ~Reset) =>
       <<breaker.state, breaker'.state>> \in Edges]_vars

\* no reset() since a probe failed, and the breaker is CLOSED again with a
\* call still in flight: all four edges have been taken
C19_Witness ==
  /\ probeFailAt # Undefined
  /\ breaker.state = "CLOSED"
  /\ InFlight > 0

\* C20: successCount, as getStats reports it, never decreases across the
\* breaker's public operations: execute and the completions of its
\* operations, getStats, reset.
C20_SuccessCountMonotonic ==
  [][getStats(breaker').successCount >= getStats(breaker).successCount]_vars

\* C20, amended: it never decreases across execute, completions and
\* getStats; reset() sets it back to 0.
C20_SuccessCountMonotonicUntilReset ==
  [][IF Reset THEN getStats(breaker').successCount = 0
              ELSE getStats(breaker').successCount
                     >= getStats(breaker).successCount]_vars

\* getStats after two successes, one of them the probe's, with failures
\* between them
C20_Witness ==
  /\ last.op = "getStats"
  /\ getStats(breaker).successCount >= 2
  /\ getStats(breaker).lastFailureTime # Undefined

\* ------------------------------------------------- the guard's properties
\* a step in which canActivate handles the arrived request, and its client
Handling == arrived # {} /\ arrived' = {}
Client   == getKey(CHOOSE request \in arrived : TRUE)

\* C11: with the reject strategy and max = N, for one client key within one
\* window, requests 1..N are admitted at once and every later request of the
\* window is rejected with 429; the first request after the window's reset
\* time is admitted again.
C11_RejectHardLimits ==
  [][(Handling /\ options.strategy = "reject") =>
       /\ answer'.op = "canActivate"
       /\ sleeping' = sleeping
       /\ IF Live(requests, Client, now)
            THEN LET nth == requests[Client].count + 1
                 IN  /\ requests'[Client].count = nth
                     /\ nth <= options.max => answer'.result = "true"
                     /\ nth > options.max => answer'.result = "429"
            ELSE /\ requests'[Client].count = 1
                 /\ answer'.result = "true"]_vars

\* request N + 1 of a window has been rejected
C11_Witness ==
  /\ options.strategy = "reject"
  /\ options.max >= 2
  /\ answer.op = "canActivate"
  /\ answer.result = "429"
  /\ requests[answer.key].count = options.max + 1

\* C12: under the delay strategy, whatever the count and the other options,
\* canActivate never rejects and never throws: it only ever returns true.
C12_DelayNeverFails ==
  (options.strategy = "delay" /\ answer.op = "canActivate")
    => answer.result = "true"

\* C13: under the delay strategy every request is eventually admitted:
\* whatever else arrives while it waits, once canActivate is called for a
\* request a canActivate call eventually returns true.
C13_DelayedEventuallyAdmitted ==
  (arrived # {} /\ options.strategy = "delay")
    ~> (answer.op = "canActivate" /\ answer.result = "true")

\* the delay the record of `answer` was handled with, and its count
Wait  == answer.wait
Count == requests[answer.key].count

\* x lies within 10% of y
Within10(x, y) ==
  /\ 9 * y.n * x.d <= 10 * x.n * y.d
  /\ 10 * x.n * y.d <= 11 * y.n * x.d

\* clamp(delayMs * delayMultiplier^(count - delayAfter - 1), 0, maxDelayMs)
Clamped ==
  LET e == Count - options.delayAfter - 1
      n == options.delayMs * Pow(options.delayMultiplier[1], e)
      d == Pow(options.delayMultiplier[2], e)
  IN  IF n < 0 THEN Ms(0)
      ELSE IF n > options.maxDelayMs * d THEN Ms(options.maxDelayMs)
      ELSE Frac(n, d)

Admitted == answer.op = "canActivate" /\ answer.result = "true"

\* C14: under the delay strategy the wait applied to a request is 0 when
\* the client's count is at most delayAfter, and otherwise is within 10% of
\* clamp(delayMs * delayMultiplier^(count - delayAfter - 1), 0, maxDelayMs)
\* and never negative.
C14_WaitWithinJitter ==
  Admitted =>
    IF Count <= options.delayAfter
      THEN Wait.n = 0
      ELSE Within10(Wait, Clamped) /\ Wait.n >= 0

\* C14, amended: that holds of every request but the first of its window,
\* which is admitted with no wait even when delayAfter is 0.
C14_WaitWithinJitterAfterFirst ==
  Admitted =>
    IF Count = 1 \/ Count <= options.delayAfter
      THEN Wait.n = 0
      ELSE Within10(Wait, Clamped) /\ Wait.n >= 0

\* a delay past the first step of the progression, below the cap, that
\* the jitter has shortened
C14_Witness ==
  /\ Admitted
  /\ Count > options.delayAfter + 1
  /\ ~Leq(Ms(options.maxDelayMs), Clamped)
  /\ ~Leq(Clamped, Wait)

\* C15: the wait applied, jitter included, never exceeds maxDelayMs.
C15_WaitNeverExceedsMax ==
  Admitted => Leq(Wait, Ms(options.maxDelayMs))

\* C16: the guard with max 10, delayAfter 7, delayMs 1000 and multiplier
\* 1.5 admits requests 1-7 with no wait, delays request 8 about 1000 ms,
\* request 9 about 1500 ms, request 10 about 2250 ms, and request 11 and
\* every later one the guard's maxDelayMs, each within 10% jitter.
C16_DocExample ==
  (Admitted /\ options = RateLimitGuard(DocOptions)) =>
    /\ Count <= 7 => Wait.n = 0
    /\ Count = 8 => Within10(Wait, Ms(1000))
    /\ Count = 9 => Within10(Wait, Ms(1500))
    /\ Count = 10 => Within10(Wait, Ms(2250))
    /\ Count >= 11 => Within10(Wait, Ms(options.maxDelayMs))

\* C17: a request from a client with no record, or whose window has expired
\* (now > resetTime), sets the record to count 1 and resetTime now +
\* windowMs and is admitted at once with no wait, under either strategy; a
\* request arriving exactly at resetTime still belongs to the old window.
C17_FreshWindow ==
  [][Handling =>
       /\ ~Live(requests, Client, now) =>
            /\ requests'[Client].count = 1
            /\ requests'[Client].resetTime = now + options.windowMs
            /\ answer'.op = "canActivate"
            /\ answer'.result = "true"
            /\ sleeping' = sleeping
       /\ (Client \in DOMAIN requests /\ now = requests[Client].resetTime) =>
            /\ requests'[Client].count = requests[Client].count + 1
            /\ requests'[Client].resetTime = requests[Client].resetTime]_vars

\* a client starts a window while another client's record holds a request
\* that arrived exactly at its reset time
C17_Witness ==
  \E k, j \in DOMAIN requests :
    /\ k # j
    /\ answer.op = "canActivate" /\ answer.key = k /\ answer.result = "true"
    /\ requests[k].count = 1
    /\ requests[k].lastRequest = now
    /\ requests[j].count >= 2
    /\ requests[j].lastRequest = requests[j].resetTime

\* C18: getStatus is a pure read: it leaves every record as it is, and it
\* returns requests = count, remaining = max(0, max - count), the record's
\* resetTime and willDelay = (strategy is delay and count > delayAfter) for
\* a live record, and requests 0, remaining max, willDelay false when the
\* client has no record or its window has expired.
C18_GetStatusPureRead ==
  [][answer'.op = "getStatus" =>
       /\ requests' = requests
       /\ LET k  == answer'.key
              st == answer'.status
          IN  IF k \in DOMAIN requests /\ now <= requests[k].resetTime
                THEN /\ st.requests = requests[k].count
                     /\ st.remaining =
                          (IF options.max - requests[k].count > 0
                             THEN options.max - requests[k].count ELSE 0)
                     /\ st.resetTime = requests[k].resetTime
                     /\ st.willDelay = (options.strategy = "delay" /\
                                        requests[k].count > options.delayAfter)
                ELSE /\ st.requests = 0
                     /\ st.remaining = options.max
                     /\ st.willDelay = FALSE]_vars

\* the status of a client that is over max under the delay strategy
C18_Witness ==
  /\ answer.op = "getStatus"
  /\ answer.status.requests > options.max
  /\ answer.status.remaining = 0
  /\ answer.status.willDelay

\* -------------------------------------------- the breaker under late calls
\* C24: a success while CLOSED adds one to successCount and changes nothing
\* else of the breaker; so while CLOSED fewer than failureThreshold
\* operations have failed since the breaker last closed, failureCount is
\* their number, and the failure that makes them failureThreshold opens it.
C24_SuccessKeepsFailureCount ==
  /\ [][last'.op = "succeed" /\ calls' # calls /\ breaker.state = "CLOSED"
         => breaker' = [breaker EXCEPT !.successCount = @ + 1]]_vars
  /\ [](breaker.state = "CLOSED"
         => breaker.failureCount = sinceClosed /\ sinceClosed < Threshold)
  /\ [][last'.op = "fail" /\ calls' # calls /\ breaker.state = "CLOSED"
           /\ sinceClosed + 1 >= Threshold
         => breaker'.state = "OPEN"]_vars

\* an operation has succeeded on a CLOSED breaker that has seen a failure
\* since it closed: the failure is still counted
C24_Witness ==
  /\ last.op = "succeed" /\ breaker.state = "CLOSED"
  /\ breaker.successCount > 0
  /\ sinceClosed > 0 /\ breaker.failureCount = sinceClosed

\* C26: the success of a call that entered execute while the breaker was
\* CLOSED, arriving while the breaker is HALF_OPEN, leaves the breaker
\* HALF_OPEN and its failureCount as it was.
C26_LateSuccessDoesNotClose ==
  [][last'.op = "succeed" /\ calls' # calls /\ last'.found = "CLOSED"
       /\ breaker.state = "HALF_OPEN"
     => breaker'.state = "HALF_OPEN"
        /\ breaker'.failureCount = breaker.failureCount]_vars

\* C27: across a step that finds the breaker OPEN and leaves it OPEN,
\* nextAttemptTime does not change.
C27_OpenKeepsNextAttemptTime ==
  [][breaker.state = "OPEN" /\ breaker'.state = "OPEN"
     => breaker'.nextAttemptTime = breaker.nextAttemptTime]_vars

\* C28: failureCount is never negative, and a CLOSED breaker's failureCount
\* is strictly below its failureThreshold.
C28_ClosedBelowThreshold ==
  /\ breaker.failureCount >= 0
  /\ breaker.state = "CLOSED" => breaker.failureCount < Threshold

\* an operation has just failed and the breaker is still CLOSED, one
\* failure short of its threshold
C28_Witness ==
  /\ last.op = "fail" /\ breaker.state = "CLOSED"
  /\ breaker.failureCount = Threshold - 1
  /\ breaker.failureCount = nFail

\* C29: an OPEN breaker has nextAttemptTime set, and an execute call made
\* on an OPEN breaker once the clock has reached nextAttemptTime is let
\* through: the breaker goes HALF_OPEN and the operation is invoked.
C29_OpenIsNeverPermanent ==
  /\ [](breaker.state = "OPEN" => breaker.nextAttemptTime # Undefined)
  /\ [][issued' = issued + 1 /\ breaker.state = "OPEN"
           /\ now >= breaker.nextAttemptTime
         => breaker'.state = "HALF_OPEN" /\ last'.invoked = 1]_vars

\* a call made at the very time nextAttemptTime names has been let through
C29_Witness ==
  /\ last.op = "execute" /\ last.found = "OPEN" /\ last.invoked = 1
  /\ breaker.state = "HALF_OPEN"
  /\ now = breaker.nextAttemptTime

\* ------------------------------------------------- the service's metrics
\* the last MetricsLimit entries of a sequence
Newest(ms) ==
  IF Len(ms) <= MetricsLimit THEN ms
  ELSE [i \in 1..MetricsLimit |-> ms[Len(ms) - MetricsLimit + i]]

\* C21: the metrics buffer never holds more than 1000 entries.  A request
\* that ends records one metric: its entry goes last, behind the entries
\* already held in their order, and when that makes 1001 the oldest entry,
\* the first, is the one dropped.  Every other step leaves the buffer
\* alone or empties it (clearMetrics).
C21_MetricsRingBuffer ==
  /\ [](Len(metrics) <= MetricsLimit)
  /\ [][IF req.pc = "running" /\ req'.pc = "done"
          THEN /\ metrics' # <<>>
               /\ metrics'[Len(metrics')].success = (req'.result.kind = "value")
               /\ metrics' = Newest(Append(metrics, metrics'[Len(metrics')]))
          ELSE metrics' = metrics \/ metrics' = <<>>]_vars

\* a request has been recorded into a full buffer, whose first two entries
\* differ: the oldest went, the second oldest is now first
C21_Witness ==
  /\ Len(metrics) = MetricsLimit
  /\ req.pc = "done" /\ served = MaxRequests
  /\ metrics[1] # Recorded(MetricsLimit)[1]
  /\ metrics[MetricsLimit].success = (req.result.kind = "value")

\* C22: getMetrics(limit) with limit >= 0 returns at most limit entries,
\* the min(limit, stored) most recently recorded ones in recording order,
\* and leaves the stored metrics as they are.
C22_GetMetricsBounded ==
  [][reply'.op = "getMetrics" /\ reply'.limit # Undefined
       => LET n == Min(reply'.limit, Len(metrics))
          IN  /\ Len(reply'.value) <= reply'.limit
              /\ reply'.value = [i \in 1..n |-> metrics[Len(metrics) - n + i]]
              /\ metrics' = metrics]_vars

\* ------------------------------------------------ one breaker per target
TargetKeys == {getCircuitBreakerKey(url) : url \in Urls}

\* C25: the service's breakers are keyed by target, one each.  A request
\* that configures a breaker finds its target's breaker or, if there is
\* none, makes it from its own configuration; a breaker that exists stays,
\* with the configuration (failureThreshold, resetTimeout, fallback) it was
\* made with, whatever later requests pass; a request without breaker
\* configuration, a stats query and a reset make none.
C25_OneBreakerPerTarget ==
  /\ [](DOMAIN circuitBreakers \subseteq TargetKeys)
  /\ [][/\ \A k \in DOMAIN circuitBreakers :
            /\ k \in DOMAIN circuitBreakers'
            /\ circuitBreakers'[k].config = circuitBreakers[k].config
        /\ LET key == getCircuitBreakerKey(req'.url)
           IN  IF served' # served /\ req'.cfg.useBreaker
                 THEN /\ DOMAIN circuitBreakers'
                           = DOMAIN circuitBreakers \cup {key}
                      /\ key \notin DOMAIN circuitBreakers
                           => circuitBreakers'[key]
                                = CircuitBreaker(req'.cfg.circuitBreaker)
                 ELSE DOMAIN circuitBreakers' = DOMAIN circuitBreakers]_vars

\* a request to a second url of a target has passed a configuration other
\* than the one the target's breaker was made with, and the breaker's is
\* still the first; its stats have then been read
C25_Witness ==
  /\ req.pc = "done" /\ req.cfg.useBreaker
  /\ getCircuitBreakerKey(req.url) # req.url
  /\ getCircuitBreakerKey(req.url) \in DOMAIN circuitBreakers
  /\ circuitBreakers[getCircuitBreakerKey(req.url)].config
       # req.cfg.circuitBreaker
  /\ reply.op = "getCircuitBreakerStats" /\ reply.url = req.url
  /\ Len(reply.value) = 1

\* ------------------------------------------------------ keys are independent
\* the entries of a map other than that of key are as they were
OthersUnchanged(before, after, key) ==
  /\ DOMAIN before \subseteq DOMAIN after
  /\ \A k \in DOMAIN after \ {key} : k \in DOMAIN before /\ after[k] = before[k]

\* C23: a request or a reset for one target leaves the breaker of every
\* other target as it was (configuration, state, counters, timestamps),
\* and a request from one client leaves the rate record of every other
\* client as it was.
C23_KeysIndependent ==
  [][/\ served' # served
        => OthersUnchanged(circuitBreakers, circuitBreakers',
                           getCircuitBreakerKey(req'.url))
     /\ served' = served /\ reply'.op = "resetCircuitBreaker"
        => OthersUnchanged(circuitBreakers, circuitBreakers',
                           getCircuitBreakerKey(reply'.url))
     /\ served' = served /\ reply'.op # "resetCircuitBreaker"
        => circuitBreakers' = circuitBreakers
     /\ \A request \in arrived :
          OthersUnchanged(requests, requests', getKey(request))
     /\ arrived = {} => requests' = requests]_vars

\* breakers of two targets exist, made with different thresholds, and one
\* has been reset; of two clients counted in a window that has run out,
\* one has made two requests since and the other's record is as it was
C23_Witness ==
  /\ \E a, b \in DOMAIN circuitBreakers :
       /\ circuitBreakers[a].config # circuitBreakers[b].config
       /\ reply.op = "resetCircuitBreaker"
       /\ getCircuitBreakerKey(reply.url) = a
  /\ \E a, b \in DOMAIN requests :
       /\ answer.op = "canActivate" /\ answer.key = a
       /\ requests[a].count > requests[b].count
       /\ requests[a].resetTime > now /\ requests[b].resetTime < now

\* ------------------------------------------------------- the fixed window
\* C30: a request in a client's running window adds exactly one to the
\* record's count and leaves its resetTime, whether it is admitted,
\* delayed or rejected; resetTime is written only by the request that
\* creates the record or finds its window run out, as now + windowMs.
C30_FixedWindow ==
  [][/\ Handling /\ Live(requests, Client, now)
        => /\ requests'[Client].count = requests[Client].count + 1
           /\ requests'[Client].resetTime = requests[Client].resetTime
     /\ \A k \in DOMAIN requests' :
          (k \in DOMAIN requests
             => requests'[k].resetTime # requests[k].resetTime)
          => /\ Handling /\ k = Client /\ ~Live(requests, k, now)
             /\ requests'[k].resetTime = now + options.windowMs]_vars

\* a request has been rejected some time into its window: it is counted,
\* and the window still ends windowMs after the request that opened it
C30_Witness ==
  /\ answer.op = "canActivate" /\ answer.result = "429"
  /\ requests[answer.key].count > options.max
  /\ requests[answer.key].lastRequest = now
  /\ requests[answer.key].resetTime < now + options.windowMs

====
